---- MODULE Spec2Model ----
\* A model of scripts/fix_schema_conversions.py: the regex rewriting rules,
\* the four-stage pipeline and the read / backup / write-back sequence of main.
\* Text is a sequence of one-character strings, so that every pattern is
\* matched character by character as the re module does.
EXTENDS Integers, Sequences, FiniteSets, TLC

\* ------------------------------------------------------------------ bounds
\* Number of times the script is invoked in one behaviour.
MaxRuns == 2

\* Number of snippets that make up the initial source file.
MaxSnippets == 2

\* --------------------------------------------------------- character classes
Lower == {"a","b","c","d","e","f","g","h","i","j","k","l","m","n","o","p","q","r","s","t","u","v","w","x","y","z"}

Upper == {"A","B","C","D","E","F","G","H","I","J","K","L","M","N","O","P","Q","R","S","T","U","V","W","X","Y","Z"}

Digit == {"0","1","2","3","4","5","6","7","8","9"}

\* The regex character classes the patterns use:
\*   "w"  \w             "d"  \d
\*   "a"  [a-zA-Z_]      "an" [a-zA-Z0-9_]
\*   "np" [^)]  (also written [^\)])      "nb" [^\]]
InClass(cls, c) ==
  CASE cls = "w"  -> c \in Lower \cup Upper \cup Digit \cup {"_"}
    [] cls = "d"  -> c \in Digit
    [] cls = "a"  -> c \in Lower \cup Upper \cup {"_"}
    [] cls = "an" -> c \in Lower \cup Upper \cup Digit \cup {"_"}
    [] cls = "np" -> c # ")"
    [] cls = "nb" -> c # "]"

\* ------------------------------------------------------------ text helpers
\* The literal lit occurs in s at position i.
StartsAt(s, i, lit) ==
  /\ i >= 1
  /\ i + Len(lit) - 1 <= Len(s)
  /\ \A k \in 1..Len(lit) : s[i + k - 1] = lit[k]

\* 'lit in s' of Python.
Contains(s, lit) == \E i \in 1..(Len(s) - Len(lit) + 1) : StartsAt(s, i, lit)

\* The position just after the longest run of characters of class cls that
\* starts at i (i itself when the run is empty): a greedy cls*.
RunEnd(s, i, cls) ==
  CHOOSE j \in i..(Len(s) + 1) :
    /\ j = Len(s) + 1 \/ ~InClass(cls, s[j])
    /\ \A k \in i..(j - 1) : InClass(cls, s[k])

\* '$' under re.MULTILINE: at the end of the text or just before a newline.
AtLineEnd(s, i) == i = Len(s) + 1 \/ (i <= Len(s) /\ s[i] = "\n")

\* ------------------------------------------------------------ the patterns
\* A match attempt at position i gives the position after the match and the
\* captured groups, or NoMatch.
NoMatch == [end |-> 0, groups |-> <<>>]

\* <head>(\d+)<tail> at position i, the index being the only group.
MatchIndexed(s, i, head, tail) ==
  IF ~StartsAt(s, i, head) THEN NoMatch
  ELSE LET b == i + Len(head)
           c == RunEnd(s, b, "d")
       IN  IF c = b \/ ~StartsAt(s, c, tail) THEN NoMatch
           ELSE [end |-> c + Len(tail), groups |-> <<SubSeq(s, b, c - 1)>>]

\* (\w+)<head>(\d+)<tail> at position i.
MatchDestructure(s, i, head, tail) ==
  LET a == RunEnd(s, i, "w")
  IN  IF a = i THEN NoMatch
      ELSE LET m == MatchIndexed(s, a, head, tail)
           IN  IF m.end = 0 THEN NoMatch
               ELSE [end |-> m.end, groups |-> <<SubSeq(s, i, a - 1)>> \o m.groups]

\* (\w+), ok := args\[(\d+)\]\.\(string\)
Pattern_string_destructure(s, i) ==
  MatchDestructure(s, i, <<","," ","o","k"," ",":","="," ","a","r","g","s","[">>, <<"]",".","(","s","t","r","i","n","g",")">>)

\* args\[(\d+)\]\.\(string\)
Pattern_string_cast(s, i) == MatchIndexed(s, i, <<"a","r","g","s","[">>, <<"]",".","(","s","t","r","i","n","g",")">>)

\* args\[(\d+)\]\.\(float64\)
Pattern_float64_cast(s, i) == MatchIndexed(s, i, <<"a","r","g","s","[">>, <<"]",".","(","f","l","o","a","t","6","4",")">>)

\* args\[(\d+)\]\.\(bool\)
Pattern_bool_cast(s, i) == MatchIndexed(s, i, <<"a","r","g","s","[">>, <<"]",".","(","b","o","o","l",")">>)

\* (\w+), ok := args\[(\d+)\]\.\(map\[string\]interface\{\}\)
Pattern_object_destructure(s, i) ==
  MatchDestructure(s, i, <<","," ","o","k"," ",":","="," ","a","r","g","s","[">>, <<"]",".","(","m","a","p","[","s","t","r","i","n","g","]","i","n","t","e","r","f","a","c","e","{","}",")">>)

\* A variant of the identifier pattern whose group takes anything up to the
\* comma: return ([^,]+), nil$
Pattern_return_ident_broad(s, i) ==
  IF ~StartsAt(s, i, <<"r","e","t","u","r","n"," ">>) THEN NoMatch
  ELSE LET b == i + 7
           c == CHOOSE j \in b..(Len(s) + 1) :
                  /\ j = Len(s) + 1 \/ s[j] = ","
                  /\ \A k \in b..(j - 1) : s[k] # ","
       IN  IF c > b /\ StartsAt(s, c, <<","," ","n","i","l">>) /\ AtLineEnd(s, c + 5)
           THEN [end |-> c + 5, groups |-> <<SubSeq(s, b, c - 1)>>]
           ELSE NoMatch

\* return ([a-zA-Z_][a-zA-Z0-9_]*), nil$
Pattern_return_ident(s, i) ==
  IF ~StartsAt(s, i, <<"r","e","t","u","r","n"," ">>) THEN NoMatch
  ELSE LET b == i + 7
       IN  IF ~(b <= Len(s) /\ InClass("a", s[b])) THEN NoMatch
           ELSE LET c == RunEnd(s, b + 1, "an")
                IN  IF StartsAt(s, c, <<","," ","n","i","l">>) /\ AtLineEnd(s, c + 5)
                    THEN [end |-> c + 5, groups |-> <<SubSeq(s, b, c - 1)>>]
                    ELSE NoMatch

\* return (\d+), nil$
Pattern_return_int(s, i) ==
  LET m == MatchIndexed(s, i, <<"r","e","t","u","r","n"," ">>, <<","," ","n","i","l">>)
  IN  IF m.end # 0 /\ AtLineEnd(s, m.end) THEN m ELSE NoMatch

\* return (true|false), nil$
Pattern_return_bool(s, i) ==
  IF StartsAt(s, i, <<"r","e","t","u","r","n"," ","t","r","u","e",","," ","n","i","l">>) /\ AtLineEnd(s, i + 16)
  THEN [end |-> i + 16, groups |-> <<<<"t","r","u","e">>>>]
  ELSE IF StartsAt(s, i, <<"r","e","t","u","r","n"," ","f","a","l","s","e",","," ","n","i","l">>) /\ AtLineEnd(s, i + 17)
  THEN [end |-> i + 17, groups |-> <<<<"f","a","l","s","e">>>>]
  ELSE NoMatch

\* return schemaToScript\(([^)]+)\), nil
\* [^)]+ runs to the first ')': no shorter run can be followed by ')'.
Pattern_return_schema(s, i) ==
  IF ~StartsAt(s, i, <<"r","e","t","u","r","n"," ","s","c","h","e","m","a","T","o","S","c","r","i","p","t","(">>) THEN NoMatch
  ELSE LET b == i + 22
           c == RunEnd(s, b, "np")
       IN  IF c = b \/ ~StartsAt(s, c, <<")",","," ","n","i","l">>) THEN NoMatch
           ELSE [end |-> c + 6, groups |-> <<SubSeq(s, b, c - 1)>>]

\* return ([a-zA-Z_][a-zA-Z0-9_]*)\[([^\]]+)\], nil
Pattern_return_index(s, i) ==
  IF ~StartsAt(s, i, <<"r","e","t","u","r","n"," ">>) THEN NoMatch
  ELSE LET b == i + 7
       IN  IF ~(b <= Len(s) /\ InClass("a", s[b])) THEN NoMatch
           ELSE LET c == RunEnd(s, b + 1, "an")
                IN  IF ~StartsAt(s, c, <<"[">>) THEN NoMatch
                    ELSE LET d == RunEnd(s, c + 1, "nb")
                         IN  IF d = c + 1 \/ ~StartsAt(s, d, <<"]",","," ","n","i","l">>) THEN NoMatch
                             ELSE [end |-> d + 6,
                                   groups |-> <<SubSeq(s, b, c - 1), SubSeq(s, c + 1, d - 1)>>]

\* (import \(\n(?:[^\)]*\n)*)
\* Each round of the starred group takes characters other than ')' up to a
\* newline, greedily; the rounds together end at the last newline of the run
\* of non-')' characters that follows the opening line, and there are no
\* rounds when that run has no newline.
Pattern_import_block(s, i) ==
  IF ~StartsAt(s, i, <<"i","m","p","o","r","t"," ","(","\n">>) THEN NoMatch
  ELSE LET b == i + 9
           c == RunEnd(s, b, "np")
           nls == {j \in b..(c - 1) : s[j] = "\n"}
           e == IF nls = {} THEN b ELSE (CHOOSE j \in nls : \A k \in nls : k <= j) + 1
       IN  [end |-> e, groups |-> <<SubSeq(s, i, e - 1)>>]

\* ------------------------------------------------- the replacement templates
\* if args[\2] == nil || ... \1 := args[\2].(engine.StringValue).Value()
Template_string_destructure(g) ==
  <<"i","f"," ","a","r","g","s","[">> \o g[2] \o <<"]"," ","=","="," ","n","i","l"," ","|","|"," ","a","r","g","s","[">> \o g[2]
    \o <<"]",".","T","y","p","e","(",")"," ","!","="," ","e","n","g","i","n","e",".","T","y","p","e","S","t","r","i","n","g"," ","{","\n","\t","\t","\t","r","e","t","u","r","n"," ","n","i","l",","," ","f","m","t",".","E","r","r","o","r","f","(","\"","a","r","g","u","m","e","n","t"," ","m","u","s","t"," ","b","e"," ","s","t","r","i","n","g","\"",")","\n","\t","\t","}","\n","\t","\t">>
    \o g[1] \o <<" ",":","="," ","a","r","g","s","[">> \o g[2] \o <<"]",".","(","e","n","g","i","n","e",".","S","t","r","i","n","g","V","a","l","u","e",")",".","V","a","l","u","e","(",")">>

Template_string_cast(g) == <<"a","r","g","s","[">> \o g[1] \o <<"]",".","(","e","n","g","i","n","e",".","S","t","r","i","n","g","V","a","l","u","e",")",".","V","a","l","u","e","(",")">>

Template_float64_cast(g) == <<"a","r","g","s","[">> \o g[1] \o <<"]",".","(","e","n","g","i","n","e",".","N","u","m","b","e","r","V","a","l","u","e",")",".","V","a","l","u","e","(",")">>

Template_bool_cast(g) == <<"a","r","g","s","[">> \o g[1] \o <<"]",".","(","e","n","g","i","n","e",".","B","o","o","l","V","a","l","u","e",")",".","V","a","l","u","e","(",")">>

Template_object_destructure(g) ==
  <<"i","f"," ","a","r","g","s","[">> \o g[2] \o <<"]"," ","=","="," ","n","i","l"," ","|","|"," ","a","r","g","s","[">> \o g[2]
    \o <<"]",".","T","y","p","e","(",")"," ","!","="," ","e","n","g","i","n","e",".","T","y","p","e","O","b","j","e","c","t"," ","{","\n","\t","\t","\t","r","e","t","u","r","n"," ","n","i","l",","," ","f","m","t",".","E","r","r","o","r","f","(","\"","a","r","g","u","m","e","n","t"," ","m","u","s","t"," ","b","e"," ","o","b","j","e","c","t","\"",")","\n","\t","\t","}","\n","\t","\t">>
    \o g[1] \o <<" ",":","="," ","m","a","k","e","(","m","a","p","[","s","t","r","i","n","g","]","i","n","t","e","r","f","a","c","e","{","}",")","\n","\t","\t","f","o","r"," ","k",","," ","v"," ",":","="," ","r","a","n","g","e"," ","a","r","g","s","[">> \o g[2]
    \o <<"]",".","(","e","n","g","i","n","e",".","O","b","j","e","c","t","V","a","l","u","e",")",".","F","i","e","l","d","s","(",")"," ","{","\n","\t","\t","\t">> \o g[1] \o <<"[","k","]"," ","="," ","v",".","T","o","G","o","(",")","\n","\t","\t","}">>

\* A variant that wraps the identifier as a number.
Template_return_ident_number(g) == <<"r","e","t","u","r","n"," ","e","n","g","i","n","e",".","N","e","w","N","u","m","b","e","r","V","a","l","u","e","(","f","l","o","a","t","6","4","(">> \o g[1] \o <<")",")",","," ","n","i","l">>

Template_return_ident(g) == <<"r","e","t","u","r","n"," ","e","n","g","i","n","e",".","N","e","w","S","t","r","i","n","g","V","a","l","u","e","(">> \o g[1] \o <<")",","," ","n","i","l">>

Template_return_int(g) == <<"r","e","t","u","r","n"," ","e","n","g","i","n","e",".","N","e","w","N","u","m","b","e","r","V","a","l","u","e","(","f","l","o","a","t","6","4","(">> \o g[1] \o <<")",")",","," ","n","i","l">>

Template_return_bool(g) == <<"r","e","t","u","r","n"," ","e","n","g","i","n","e",".","N","e","w","B","o","o","l","V","a","l","u","e","(">> \o g[1] \o <<")",","," ","n","i","l">>

Template_return_schema(g) == <<"r","e","t","u","r","n"," ","c","o","n","v","e","r","t","S","c","h","e","m","a","T","o","S","c","r","i","p","t","V","a","l","u","e","(">> \o g[1] \o <<")",","," ","n","i","l">>

Template_return_index(g) ==
  <<"/","/"," ","T","O","D","O",":"," ","C","o","n","v","e","r","t"," ","a","r","r","a","y","/","s","l","i","c","e"," ","r","e","t","u","r","n","\n","\t","\t","r","e","t","u","r","n"," ","e","n","g","i","n","e",".","N","e","w","A","r","r","a","y","V","a","l","u","e","(","h","e","l","p","e","r","s",".","C","o","n","v","e","r","t","S","l","i","c","e","T","o","S","c","r","i","p","t","V","a","l","u","e","(">>
    \o g[1] \o <<"[">> \o g[2] \o <<"]",")",")",","," ","n","i","l">>

Template_import_block(g) ==
  g[1] \o <<"\t","\"","g","i","t","h","u","b",".","c","o","m","/","l","e","x","l","a","p","a","x","/","g","o","-","l","l","m","s","p","e","l","l","/","p","k","g","/","b","r","i","d","g","e","/","s","t","r","u","c","t","u","r","e","d","/","h","e","l","p","e","r","s","\"","\n">>

\* ------------------------------------------------------------------ re.sub
Match(rule, s, i) ==
  CASE rule = "string_destructure" -> Pattern_string_destructure(s, i)
    [] rule = "string_cast"        -> Pattern_string_cast(s, i)
    [] rule = "float64_cast"       -> Pattern_float64_cast(s, i)
    [] rule = "bool_cast"          -> Pattern_bool_cast(s, i)
    [] rule = "object_destructure" -> Pattern_object_destructure(s, i)
    [] rule = "return_ident"       -> Pattern_return_ident(s, i)
    [] rule = "return_int"         -> Pattern_return_int(s, i)
    [] rule = "return_bool"        -> Pattern_return_bool(s, i)
    [] rule = "return_schema"      -> Pattern_return_schema(s, i)
    [] rule = "return_index"       -> Pattern_return_index(s, i)
    [] rule = "import_block"       -> Pattern_import_block(s, i)

Expand(rule, g) ==
  CASE rule = "string_destructure" -> Template_string_destructure(g)
    [] rule = "string_cast"        -> Template_string_cast(g)
    [] rule = "float64_cast"       -> Template_float64_cast(g)
    [] rule = "bool_cast"          -> Template_bool_cast(g)
    [] rule = "object_destructure" -> Template_object_destructure(g)
    [] rule = "return_ident"       -> Template_return_ident(g)
    [] rule = "return_int"         -> Template_return_int(g)
    [] rule = "return_bool"        -> Template_return_bool(g)
    [] rule = "return_schema"      -> Template_return_schema(g)
    [] rule = "return_index"       -> Template_return_index(g)
    [] rule = "import_block"       -> Template_import_block(g)

\* The least element of a non-empty set of positions.
Min(S) == CHOOSE x \in S : \A y \in S : x <= y

\* The positions of s at which the rule's pattern matches.
MatchStarts(rule, s) == {j \in 1..Len(s) : Match(rule, s, j).end # 0}

\* Every leftmost non-overlapping match at or after position i replaced by
\* its expanded template, the text between the matches copied; starts is
\* MatchStarts(rule, s) and acc the text produced so far.  (No pattern of the
\* script matches the empty string.)
RECURSIVE SubFrom(_, _, _, _, _)
SubFrom(rule, s, i, starts, acc) ==
  LET later == {j \in starts : j >= i}
  IN  IF later = {} THEN acc \o SubSeq(s, i, Len(s))
      ELSE LET j == Min(later)
               m == Match(rule, s, j)
           IN  SubFrom(rule, s, m.end, starts,
                       acc \o SubSeq(s, i, j - 1) \o Expand(rule, m.groups))

re_sub(rule, s) == SubFrom(rule, s, 1, MatchStarts(rule, s), <<>>)

\* ---------------------------------------------------------- the four stages
\* A variant that applies the direct casts before the destructuring rule.
fix_string_validations_casts_first(content) ==
  re_sub("string_destructure",
    re_sub("bool_cast",
      re_sub("float64_cast",
        re_sub("string_cast", content))))

fix_string_validations(content) ==
  re_sub("bool_cast",
    re_sub("float64_cast",
      re_sub("string_cast",
        re_sub("string_destructure", content))))

fix_return_values(content) ==
  re_sub("return_index",
    re_sub("return_schema",
      re_sub("return_bool",
        re_sub("return_int",
          re_sub("return_ident", content)))))

fix_object_validations(content) == re_sub("object_destructure", content)

\* A variant whose pattern stops at the opening line: (import \(\n)
add_helper_import_after_opening(content) ==
  LET opens == {i \in 1..Len(content) : StartsAt(content, i, <<"i","m","p","o","r","t"," ","(","\n">>)}
      q == Min(opens) + 8
  IN  IF Contains(content, <<"h","e","l","p","e","r","s">>) \/ opens = {} THEN content
      ELSE SubSeq(content, 1, q)
             \o <<"\t","\"","g","i","t","h","u","b",".","c","o","m","/","l","e","x","l","a","p","a","x","/","g","o","-","l","l","m","s","p","e","l","l","/","p","k","g","/","b","r","i","d","g","e","/","s","t","r","u","c","t","u","r","e","d","/","h","e","l","p","e","r","s","\"","\n">>
             \o SubSeq(content, q + 1, Len(content))

\* A variant without the 'helpers' not in content test.
add_helper_import_unguarded(content) == re_sub("import_block", content)

\* A variant that adds an import statement of its own when the document has
\* no import block.
add_helper_import_fallback(content) ==
  IF Contains(content, <<"h","e","l","p","e","r","s">>) THEN content
  ELSE IF MatchStarts("import_block", content) # {} THEN re_sub("import_block", content)
  ELSE <<"i","m","p","o","r","t"," ","\"","g","i","t","h","u","b",".","c","o","m","/","l","e","x","l","a","p","a","x","/","g","o","-","l","l","m","s","p","e","l","l","/","p","k","g","/","b","r","i","d","g","e","/","s","t","r","u","c","t","u","r","e","d","/","h","e","l","p","e","r","s","\"","\n">> \o content

add_helper_import(content) ==
  IF ~Contains(content, <<"h","e","l","p","e","r","s">>) THEN re_sub("import_block", content)
  ELSE content

\* The four calls of main, in order.
Pipeline(content) ==
  fix_return_values(
    fix_object_validations(
      fix_string_validations(
        add_helper_import(content))))

\* ------------------------------------------------------------- text file I/O
\* What f.read() gives for a file opened with open(path, 'r'): text mode with
\* universal newlines, "\r\n" and a lone "\r" each read as "\n".
ReadText(data) ==
  LET idx  == [j \in 1..Len(data) |-> j]
      keep(j) == ~(data[j] = "\n" /\ j > 1 /\ data[j - 1] = "\r")
      kept == SelectSeq(idx, keep)
  IN  [n \in 1..Len(kept) |-> IF data[kept[n]] = "\r" THEN "\n" ELSE data[kept[n]]]

\* os.linesep of the platform the script runs on (POSIX).
os_linesep == "\n"

\* What f.write(text) stores for a file opened with open(path, 'w'): text
\* mode, each "\n" written as os.linesep.
WriteText(text) ==
  [n \in 1..Len(text) |-> IF text[n] = "\n" THEN os_linesep ELSE text[n]]

\* --------------------------------------------------------------- the inputs
\* Pieces of Go source the initial file is made of.
Snippets == {
  <<"i","m","p","o","r","t"," ","(","\n","\t","\"","f","m","t","\"","\n",")","\n">>,
  <<"i","m","p","o","r","t"," ","(","\n","\t","\"","o","s","\""," ","/","/"," ","(","s","t","d",")","\n",")","\n">>,
  <<"/","/"," ","s","e","e"," ","h","e","l","p","e","r","s","\n">>,
  <<"\t","n","a","m","e",","," ","o","k"," ",":","="," ","a","r","g","s","[","0","]",".","(","s","t","r","i","n","g",")","\n","\t","s","_","2",","," ","o","k"," ",":","="," ","a","r","g","s","[","1","2","]",".","(","s","t","r","i","n","g",")","\n","\t","o","p","t","s",","," ","o","k"," ",":","="," ","a","r","g","s","[","1","]",".","(","m","a","p","[","s","t","r","i","n","g","]","i","n","t","e","r","f","a","c","e","{","}",")","\n">>,
  <<"\t","a"," ",":","="," ","a","r","g","s","[","0","]",".","(","s","t","r","i","n","g",")","\n","\t","b"," ",":","="," ","a","r","g","s","[","1","]",".","(","f","l","o","a","t","6","4",")","\n","\t","c"," ",":","="," ","a","r","g","s","[","2","]",".","(","b","o","o","l",")","\n">>,
  <<"\t","r","e","t","u","r","n"," ","c","o","u","n","t",","," ","n","i","l","\n","\t","r","e","t","u","r","n"," ","4","2",","," ","n","i","l","\n","\t","r","e","t","u","r","n"," ","t","r","u","e",","," ","n","i","l","\n">>,
  <<"\t","r","e","t","u","r","n"," ","s","c","h","e","m","a","T","o","S","c","r","i","p","t","(","s",")",","," ","n","i","l","\n","\t","r","e","t","u","r","n"," ","r","e","s","u","l","t","[","i","d","x","]",","," ","n","i","l","\n">>,
  <<"\t","x"," ",":","="," ","1","\n">>,
  <<"\t","y"," ",":","="," ","2","\r","\n">> }

RECURSIVE Concat(_)
Concat(ss) == IF ss = <<>> THEN <<>> ELSE Head(ss) \o Concat(Tail(ss))

\* The contents the source file can have before the first invocation.
Documents ==
  {Concat(ss) : ss \in UNION {[1..n -> Snippets] : n \in 0..MaxSnippets}}

\* The file the script is run on, and the command lines it is run with.
FilePath == "schema.go"

ArgvChoices ==
  { <<"fix_schema_conversions.py">>,
    <<"fix_schema_conversions.py", FilePath>>,
    <<"fix_schema_conversions.py", FilePath, "extra">> }

\* ---------------------------------------------------------------- the state
VARIABLES
  fs,        \* the file system: path |-> contents, for the files that exist
  argv,      \* sys.argv of the running (or last) process
  pc,        \* where the process is in main; "idle" before the first process
  content,   \* the local variable content of main
  stdout,    \* the lines printed
  stderr,    \* the traceback of an uncaught exception
  exitCode,  \* the exit status, NoExit while the process runs
  events,    \* the file operations the process has completed, in order
  runs       \* the number of processes started

vars == <<fs, argv, pc, content, stdout, stderr, exitCode, events, runs>>

NoExit == -1

UsageMsg == "Usage: python3 fix_schema_conversions.py <schema.go>"

file_path == argv[2]

BackupPath(path) == path \o ".py_backup"

\* The file system after path has been given the contents data.
Written(files, path, data) ==
  [p \in DOMAIN files \cup {path} |-> IF p = path THEN data ELSE files[p]]

Init ==
  /\ \/ fs = [p \in {} |-> <<>>]
     \/ \E d \in Documents : fs = [p \in {FilePath} |-> d]
  /\ argv = <<>>
  /\ pc = "idle"
  /\ content = <<>>
  /\ stdout = <<>>
  /\ stderr = <<>>
  /\ exitCode = NoExit
  /\ events = <<>>
  /\ runs = 0

\* The script is started: a new process, with fresh locals and streams.
Invoke ==
  /\ pc \in {"idle", "exited"}
  /\ runs < MaxRuns
  /\ \E a \in ArgvChoices : argv' = a
  /\ pc' = "main"
  /\ content' = <<>>
  /\ stdout' = <<>>
  /\ stderr' = <<>>
  /\ exitCode' = NoExit
  /\ events' = <<>>
  /\ runs' = runs + 1
  /\ UNCHANGED fs

\* A variant that only rejects a missing argument: len(sys.argv) < 2
ArgCountMismatch_too_few(args) == Len(args) < 2

\* if len(sys.argv) != 2
ArgCountMismatch(args) == Len(args) # 2

\* print usage; sys.exit(1)
Usage ==
  /\ pc = "main"
  /\ ArgCountMismatch(argv)
  /\ stdout' = Append(stdout, UsageMsg)
  /\ exitCode' = 1
  /\ pc' = "exited"
  /\ UNCHANGED <<fs, argv, content, stderr, events, runs>>

\* file_path = sys.argv[1]
TakePath ==
  /\ pc = "main"
  /\ ~ArgCountMismatch(argv)
  /\ pc' = "read"
  /\ UNCHANGED <<fs, argv, content, stdout, stderr, exitCode, events, runs>>

\* An exception nothing catches: traceback on stderr, exit status 1.
Raise(exc) ==
  /\ stderr' = Append(stderr, exc)
  /\ exitCode' = 1
  /\ pc' = "exited"

\* with open(file_path, 'r') as f: content = f.read()
ReadFile ==
  /\ pc = "read"
  /\ file_path \in DOMAIN fs
  /\ content' = ReadText(fs[file_path])
  /\ events' = Append(events, [op |-> "read", path |-> file_path])
  /\ pc' = "backup"
  /\ UNCHANGED <<fs, argv, stdout, stderr, exitCode, runs>>

\* open(file_path, 'r') of a file that does not exist
ReadFails ==
  /\ pc = "read"
  /\ file_path \notin DOMAIN fs
  /\ Raise("FileNotFoundError")
  /\ UNCHANGED <<fs, argv, content, stdout, events, runs>>

\* A variant that takes the backup after the rewrite instead of before it:
\* nothing is written here.
BackupOriginal_skipped ==
  /\ pc = "backup"
  /\ stdout' = Append(stdout, "Processing " \o file_path \o "...")
  /\ pc' = "add_helper_import"
  /\ UNCHANGED <<fs, argv, content, stderr, exitCode, events, runs>>

\* with open(file_path + '.py_backup', 'w') as f: f.write(content)
\* print(f"Processing {file_path}...")
BackupOriginal ==
  /\ pc = "backup"
  /\ fs' = Written(fs, BackupPath(file_path), WriteText(content))
  /\ events' = Append(events, [op |-> "write", path |-> BackupPath(file_path)])
  /\ stdout' = Append(stdout, "Processing " \o file_path \o "...")
  /\ pc' = "add_helper_import"
  /\ UNCHANGED <<argv, content, stderr, exitCode, runs>>

\* The two ways open(path, 'w') ... f.write fails: open raises and the file
\* is as it was, or open has truncated the file and the write raises.
FailedWrite(files, path) == {files, Written(files, path, <<>>)}

BackupFails ==
  /\ pc = "backup"
  /\ fs' \in FailedWrite(fs, BackupPath(file_path))
  /\ Raise("OSError")
  /\ UNCHANGED <<argv, content, stdout, events, runs>>

\* content = add_helper_import(content)
StageImport ==
  /\ pc = "add_helper_import"
  /\ content' = add_helper_import(content)
  /\ pc' = "fix_string_validations"
  /\ UNCHANGED <<fs, argv, stdout, stderr, exitCode, events, runs>>

\* content = fix_string_validations(content)
StageString ==
  /\ pc = "fix_string_validations"
  /\ content' = fix_string_validations(content)
  /\ pc' = "fix_object_validations"
  /\ UNCHANGED <<fs, argv, stdout, stderr, exitCode, events, runs>>

\* content = fix_object_validations(content)
StageObject ==
  /\ pc = "fix_object_validations"
  /\ content' = fix_object_validations(content)
  /\ pc' = "fix_return_values"
  /\ UNCHANGED <<fs, argv, stdout, stderr, exitCode, events, runs>>

\* content = fix_return_values(content)
StageReturn ==
  /\ pc = "fix_return_values"
  /\ content' = fix_return_values(content)
  /\ pc' = "write_back"
  /\ UNCHANGED <<fs, argv, stdout, stderr, exitCode, events, runs>>

\* with open(file_path, 'w') as f: f.write(content)
\* the two closing prints; main returns and the process exits with status 0
WriteBack ==
  /\ pc = "write_back"
  /\ fs' = Written(fs, file_path, WriteText(content))
  /\ events' = Append(events, [op |-> "write", path |-> file_path])
  /\ stdout' = stdout \o << "Fixed " \o file_path \o " (backup: " \o file_path \o ".py_backup)",
                           "Manual review recommended for complex patterns" >>
  /\ exitCode' = 0
  /\ pc' = "exited"
  /\ UNCHANGED <<argv, content, stderr, runs>>

WriteBackFails ==
  /\ pc = "write_back"
  /\ fs' \in FailedWrite(fs, file_path)
  /\ Raise("OSError")
  /\ UNCHANGED <<argv, content, stdout, events, runs>>

Next ==
  \/ Invoke
  \/ Usage
  \/ TakePath
  \/ ReadFile
  \/ ReadFails
  \/ BackupOriginal
  \/ BackupFails
  \/ StageImport
  \/ StageString
  \/ StageObject
  \/ StageReturn
  \/ WriteBack
  \/ WriteBackFails

Spec == Init /\ [][Next]_vars

\* =================================================================== claims
\* Vocabulary of the properties.
Rules == {"import_block", "string_destructure", "string_cast", "float64_cast", "bool_cast",
          "object_destructure", "return_ident", "return_int", "return_bool",
          "return_schema", "return_index"}

Opening == <<"i","m","p","o","r","t"," ","(","\n">>

HelperName == <<"h","e","l","p","e","r","s">>

HelperLine == <<"\t","\"","g","i","t","h","u","b",".","c","o","m","/","l","e","x","l","a","p","a","x","/","g","o","-","l","l","m","s","p","e","l","l","/","p","k","g","/","b","r","i","d","g","e","/","s","t","r","u","c","t","u","r","e","d","/","h","e","l","p","e","r","s","\"","\n">>

Max(S) == CHOOSE x \in S : \A y \in S : y <= x

\* The number of places where lit occurs in s.
CountOcc(s, lit) == Cardinality({i \in 1..Len(s) : StartsAt(s, i, lit)})

\* s has a line that ends with lit.
HasLine(s, lit) == \E i \in 1..Len(s) : StartsAt(s, i, lit) /\ AtLineEnd(s, i + Len(lit))

\* The lines of s, without their newlines.
Lines(s) ==
  LET idx == [j \in 1..Len(s) |-> j]
      first(j) == j = 1 \/ s[j - 1] = "\n"
      starts == SelectSeq(idx, first)
      stop(a) == Min({j \in a..(Len(s) + 1) : j = Len(s) + 1 \/ s[j] = "\n"})
  IN  [n \in 1..Len(starts) |-> SubSeq(s, starts[n], stop(starts[n]) - 1)]

\* The lines of s that hold a return statement.
ReturnLines(s) ==
  LET isReturn(l) == Contains(l, <<"r","e","t","u","r","n">>)
  IN  SelectSeq(Lines(s), isReturn)

\* s with ins put in after position q.
InsertAfter(s, q, ins) == SubSeq(s, 1, q) \o ins \o SubSeq(s, q + 1, Len(s))

BackupFile == BackupPath(FilePath)

ReadEvent == [op |-> "read", path |-> FilePath]

BackupEvent == [op |-> "write", path |-> BackupFile]

WriteEvent == [op |-> "write", path |-> FilePath]

IsPrefix(a, b) == Len(a) <= Len(b) /\ a = SubSeq(b, 1, Len(a))

\* The four stages have run: content is the pipeline's output, and the backup
\* file holds the text the pipeline was given.
PipelineDone == pc = "write_back"

In == fs[BackupFile]

Out == content

\* This step changes the source file or completes a write to it.
SourceWritten ==
  \/ /\ FilePath \in DOMAIN fs'
     /\ FilePath \notin DOMAIN fs \/ fs'[FilePath] # fs[FilePath]
  \/ events' = Append(events, WriteEvent)

\* C1: the file operations of an invocation happen in the order read the
\* source, write the backup, write the source; and whenever the source file
\* is written, the backup file already holds exactly the text that was read
\* from the source before any stage ran.
C1_BackupBeforeOverwrite ==
  [][ /\ IsPrefix(events', <<ReadEvent, BackupEvent, WriteEvent>>)
      /\ SourceWritten =>
           /\ events = <<ReadEvent, BackupEvent>>
           /\ BackupFile \in DOMAIN fs
           /\ fs[BackupFile] = ReadText(fs[FilePath]) ]_vars

C1_Witness ==
  /\ pc = "exited"
  /\ exitCode = 0
  /\ events = <<ReadEvent, BackupEvent, WriteEvent>>
  /\ fs[FilePath] # fs[BackupFile]

\* C2: a document with one instance of each bare return form (identifier,
\* integer literal, boolean literal) comes out of the pipeline with each
\* wrapped exactly once in its own constructor: NewStringValue,
\* NewNumberValue(float64(..)), NewBoolValue.
C2_EachFormItsConstructor ==
  ( /\ PipelineDone
    /\ CountOcc(In, <<"r","e","t","u","r","n"," ","c","o","u","n","t",","," ","n","i","l","\n">>) = 1
    /\ CountOcc(In, <<"r","e","t","u","r","n"," ","4","2",","," ","n","i","l","\n">>) = 1
    /\ CountOcc(In, <<"r","e","t","u","r","n"," ","t","r","u","e",","," ","n","i","l","\n">>) = 1 )
  => /\ CountOcc(Out, <<"r","e","t","u","r","n"," ","e","n","g","i","n","e",".","N","e","w","S","t","r","i","n","g","V","a","l","u","e","(","c","o","u","n","t",")",","," ","n","i","l","\n">>) = 1
     /\ CountOcc(Out, <<"r","e","t","u","r","n"," ","e","n","g","i","n","e",".","N","e","w","N","u","m","b","e","r","V","a","l","u","e","(","f","l","o","a","t","6","4","(","4","2",")",")",","," ","n","i","l","\n">>) = 1
     /\ CountOcc(Out, <<"r","e","t","u","r","n"," ","e","n","g","i","n","e",".","N","e","w","B","o","o","l","V","a","l","u","e","(","t","r","u","e",")",","," ","n","i","l","\n">>) = 1

\* C3 as stated: an input line 'return count, nil' comes out as
\* 'return engine.NewNumberValue(float64(count)), nil'.
C3_CountAsNumber ==
  (PipelineDone /\ HasLine(In, <<"r","e","t","u","r","n"," ","c","o","u","n","t",","," ","n","i","l">>))
  => HasLine(Out, <<"r","e","t","u","r","n"," ","e","n","g","i","n","e",".","N","e","w","N","u","m","b","e","r","V","a","l","u","e","(","f","l","o","a","t","6","4","(","c","o","u","n","t",")",")",","," ","n","i","l">>)

\* C3 amended: an input line 'return count, nil' comes out as
\* 'return engine.NewStringValue(count), nil', and is not wrapped as a number.
C3_CountAsString ==
  (PipelineDone /\ HasLine(In, <<"r","e","t","u","r","n"," ","c","o","u","n","t",","," ","n","i","l">>))
  => /\ HasLine(Out, <<"r","e","t","u","r","n"," ","e","n","g","i","n","e",".","N","e","w","S","t","r","i","n","g","V","a","l","u","e","(","c","o","u","n","t",")",","," ","n","i","l">>)
     /\ ~Contains(Out, <<"N","e","w","N","u","m","b","e","r","V","a","l","u","e","(","f","l","o","a","t","6","4","(","c","o","u","n","t",")",")">>)

C3_Witness ==
  /\ PipelineDone
  /\ HasLine(In, <<"r","e","t","u","r","n"," ","c","o","u","n","t",","," ","n","i","l">>)
  /\ HasLine(Out, <<"r","e","t","u","r","n"," ","e","n","g","i","n","e",".","N","e","w","S","t","r","i","n","g","V","a","l","u","e","(","c","o","u","n","t",")",","," ","n","i","l">>)

\* The step that runs add_helper_import on a document with an import block
\* and no occurrence of the helper name.
InjectingStep ==
  /\ pc = "add_helper_import"
  /\ pc' = "fix_string_validations"
  /\ Contains(content, Opening)
  /\ ~Contains(content, HelperName)

\* C4 as stated: with an import block and no 'helpers' anywhere,
\* add_helper_import adds exactly one helper import line, directly after the
\* opening line of the block, and changes nothing else.
C4_RightAfterOpening ==
  [][ InjectingStep =>
        \E i \in 1..Len(content) :
          /\ StartsAt(content, i, Opening)
          /\ content' = InsertAfter(content, i + Len(Opening) - 1, HelperLine) ]_vars

\* Where the helper line goes for the block opening at i: after the last
\* newline that comes before the first ')' following the opening line.
InjectionPoint(s, i) ==
  LET b == i + Len(Opening)
      p == Min({j \in b..(Len(s) + 1) : j = Len(s) + 1 \/ s[j] = ")"})
  IN  Max({j \in (b - 1)..(p - 1) : s[j] = "\n"})

\* C4 amended: with exactly one import block opening and no 'helpers'
\* anywhere, add_helper_import adds exactly one helper import line, after the
\* last newline that precedes the first ')' following the opening line (so
\* after the block's existing import lines), and changes nothing else.
C4_AfterLastImportLine ==
  [][ (InjectingStep /\ CountOcc(content, Opening) = 1) =>
        \E i \in 1..Len(content) :
          /\ StartsAt(content, i, Opening)
          /\ content' = InsertAfter(content, InjectionPoint(content, i), HelperLine)
          /\ CountOcc(content', HelperLine) = 1 ]_vars

C4_Witness ==
  /\ pc = "fix_string_validations"
  /\ CountOcc(content, Opening) = 1
  /\ Contains(content, <<"i","m","p","o","r","t"," ","(","\n","\t","\"","f","m","t","\"","\n">> \o HelperLine \o <<")","\n">>)

\* C5: when 'helpers' occurs anywhere in the document, add_helper_import
\* returns it unchanged, and the output of the pipeline has no more helper
\* import lines than its input.
C5_HelperPresentNoInjection ==
  [][ /\ (pc = "add_helper_import" /\ Contains(content, HelperName)) => content' = content
      /\ (PipelineDone /\ Contains(In, HelperName)) =>
           CountOcc(Out, HelperLine) = CountOcc(In, HelperLine) ]_vars

C5_Witness ==
  /\ pc = "fix_string_validations"
  /\ Contains(content, Opening)
  /\ Contains(content, <<"/","/"," ","s","e","e"," ","h","e","l","p","e","r","s">>)
  /\ ~Contains(content, HelperLine)

\* A document has a bare return line: identifier, integer or boolean literal.
HasBareReturn(s) ==
  \/ MatchStarts("return_ident", s) # {}
  \/ MatchStarts("return_int", s) # {}
  \/ MatchStarts("return_bool", s) # {}

\* C6: for a document with bare return lines, applying the pipeline to the
\* output of the pipeline leaves every return line as the first application
\* left it.
C6_SecondPassKeepsReturns ==
  (PipelineDone /\ HasBareReturn(In))
  => ReturnLines(Pipeline(Out)) = ReturnLines(Out)

C6_Witness ==
  /\ PipelineDone
  /\ HasBareReturn(In)
  /\ HasLine(Out, <<"r","e","t","u","r","n"," ","e","n","g","i","n","e",".","N","e","w","N","u","m","b","e","r","V","a","l","u","e","(","f","l","o","a","t","6","4","(","4","2",")",")",","," ","n","i","l">>)
  /\ HasLine(Pipeline(Out), <<"r","e","t","u","r","n"," ","e","n","g","i","n","e",".","N","e","w","N","u","m","b","e","r","V","a","l","u","e","(","f","l","o","a","t","6","4","(","4","2",")",")",","," ","n","i","l">>)

\* Variable names and argument indices of the destructuring idiom.
VarNames == {<<"n","a","m","e">>, <<"s","_","2">>, <<"o","p","t","s">>, <<"v">>}

ArgIndices == {<<"0">>, <<"1">>, <<"1","2">>, <<"7">>}

Idiom(v, k) == v \o <<","," ","o","k"," ",":","="," ","a","r","g","s","[">> \o k \o <<"]",".","(","s","t","r","i","n","g",")">>

Guard(k) ==
  <<"i","f"," ","a","r","g","s","[">> \o k \o <<"]"," ","=","="," ","n","i","l"," ","|","|"," ","a","r","g","s","[">> \o k \o <<"]",".","T","y","p","e","(",")"," ","!","="," ","e","n","g","i","n","e",".","T","y","p","e","S","t","r","i","n","g"," ","{","\n">>
    \o <<"\t","\t","\t","r","e","t","u","r","n"," ","n","i","l",","," ","f","m","t",".","E","r","r","o","r","f","(","\"","a","r","g","u","m","e","n","t"," ","m","u","s","t"," ","b","e"," ","s","t","r","i","n","g","\"",")","\n","\t","\t","}","\n">>

Extraction(v, k) == v \o <<" ",":","="," ","a","r","g","s","[">> \o k \o <<"]",".","(","e","n","g","i","n","e",".","S","t","r","i","n","g","V","a","l","u","e",")",".","V","a","l","u","e","(",")">>

\* C7: for every variable name v and index k, a document with the idiom
\* 'v, ok := args[k].(string)' comes out of the pipeline with the guard on
\* args[k] (error "argument must be string") followed by the extraction
\* 'v := args[k].(engine.StringValue).Value()', the block as the rule
\* emitted it.
C7_GuardThenExtraction ==
  PipelineDone =>
    \A v \in VarNames, k \in ArgIndices :
      Contains(In, Idiom(v, k)) =>
        \E i \in 1..Len(Out) :
          /\ StartsAt(Out, i, Guard(k))
          /\ StartsAt(Out, i + Len(Guard(k)), <<"\t","\t">> \o Extraction(v, k))

C7_Witness ==
  /\ PipelineDone
  /\ Contains(In, Idiom(<<"s","_","2">>, <<"1","2">>))
  /\ Contains(Out, Guard(<<"1","2">>) \o <<"\t","\t">> \o Extraction(<<"s","_","2">>, <<"1","2">>))

\* The rule's pattern matches somewhere in s.
HasMatch(rule, s) == \E j \in 1..Len(s) : Match(rule, s, j).end # 0

NoRuleMatches(s) == \A rule \in Rules : ~HasMatch(rule, s)

\* C8: when no pattern of any rule matches the document, the document goes
\* through the four stages unchanged, and no stage raises.  (Stated as: after
\* each stage, either content is still the text that was read and nothing
\* has been raised, or some rule's pattern matches that text.)
C8_Identity ==
  pc \in {"fix_string_validations", "fix_object_validations", "fix_return_values", "write_back"}
  => \/ /\ content = In
        /\ stderr = <<>>
        /\ exitCode = NoExit
     \/ ~NoRuleMatches(In)

C8_Witness ==
  /\ PipelineDone
  /\ NoRuleMatches(In)
  /\ Contains(In, <<"x"," ",":","="," ","1">>)
  /\ Out = In

\* C9: with an argument count other than one, main prints the usage message
\* and exits with status 1, and no file is read, backed up or written; with
\* one argument and no I/O failure it exits with status 0.
C9_UsageError ==
  [][ /\ Len(argv') # 2 =>
           /\ fs' = fs
           /\ events' = <<>>
           /\ pc' = "exited" => (exitCode' = 1 /\ stdout' = <<UsageMsg>>)
      /\ (pc' = "exited" /\ Len(argv') = 2 /\ stderr' = <<>>) => exitCode' = 0 ]_vars

C9_Witness ==
  /\ pc = "exited"
  /\ Len(argv) = 3
  /\ exitCode = 1
  /\ stdout = <<UsageMsg>>
  /\ FilePath \in DOMAIN fs

\* C10: when an invocation completes, the backup file holds what the source
\* file held just before that invocation.
C10_BackupIsPreviousSource ==
  [][ (pc = "write_back" /\ pc' = "exited" /\ exitCode' = 0)
        => fs'[BackupFile] = fs[FilePath] ]_vars

====
